---- MODULE Spec2Model ----
(***************************************************************************)
(* Model of the aioreactive windowing, deduplication and time-shift       *)
(* operators (aioreactive/filter.py, aioreactive/timeshift.py).           *)
(*                                                                         *)
(* A pipeline is a sequence of operator stages applied to one root        *)
(* source.  Stage i owns the closure state of its subscribe_async call;   *)
(* the observer of stage Len(ops)+1 is the downstream sink, which only    *)
(* records what it receives.  The root source is free to inject any       *)
(* signal at any time, also after a terminal one and after disposal.      *)
(*                                                                         *)
(* delay keeps its state apart (cts, delayed): one delayed observable with *)
(* the subscriptions its consumers make to it.  call and phase follow a    *)
(* pipeline from the operator call to the subscription.                    *)
(***************************************************************************)
EXTENDS Integers, Sequences, FiniteSets, TLC

\* ---------------------------------------------------------------- bounds
MaxSignals == 4   \* signals the root source injects into a one-stage pipeline
MaxBurst == 3     \* the same, for a pipeline with timers, a second source or
                  \* several stages
MaxOther == 2     \* signals the `other` source of take_until injects, and the
                  \* root source when the consumer disposes
MaxCount == 2     \* largest count / start / |stop| parameter
MaxValue == 1     \* stream elements are None and 1..MaxValue
MaxStep == 2      \* largest step parameter of slice
MaxDispose == 2   \* calls of dispose_async one consumer makes
Seconds == 2      \* the debounce / delay period, in clock ticks

\* Python's None, which is a legal stream element.
None == 0
Values == {None} \cup (1..MaxValue)

\* ---------------------------------------------------------- notifications
OnNext(x) == [kind |-> "OnNext", value |-> x]
OnError == [kind |-> "OnError", value |-> None]
OnCompleted == [kind |-> "OnCompleted", value |-> None]
Notification == {OnNext(x) : x \in Values} \cup {OnError, OnCompleted}
IsTerminal(n) == n.kind \in {"OnError", "OnCompleted"}

\* ------------------------------------------------------------- operators
skip(count) == [op |-> "skip", count |-> count]
skip_last(count) == [op |-> "skip_last", count |-> count]
take(count) == [op |-> "take", count |-> count]
take_last(count) == [op |-> "take_last", count |-> count]
take_until == [op |-> "take_until", count |-> 0]
distinct_until_changed == [op |-> "distinct_until_changed", count |-> 0]
debounce(seconds) == [op |-> "debounce", count |-> seconds]
delay(seconds) == [op |-> "delay", count |-> seconds]
filteri(step) == [op |-> "filteri", count |-> step]

\* take without the check of its count
take_raises_unchecked(count) == FALSE

\* take(count): `if count < 0: raise ValueError`, before _take is made
take_raises(count) == count < 0

\* An Optional[int] argument: <<>> is None, <<x>> is the integer x.
Optional(S) == {<<>>} \cup {<<x>> : x \in S}

\* slice that takes the take branch for stop = 0 too (stop >= 0 for stop > 0)
slice_stop_zero_takes(start, stop, step) ==
  LET first == IF start # <<>>
               THEN IF start[1] < 0 THEN <<take_last(-start[1])>>
                    ELSE <<skip(start[1])>>
               ELSE <<>>
      start_or_0 == IF start = <<>> THEN 0 ELSE start[1]
      second == IF stop # <<>>
                THEN IF stop[1] >= 0 THEN <<take(stop[1] - start_or_0)>>
                     ELSE <<skip_last(-stop[1])>>
                ELSE <<>>
      third == IF step > 1 THEN <<filteri(step)>> ELSE <<>>
  IN [raised |-> step < 0 \/ \E j \in 1..Len(second) :
                               second[j].op = "take" /\ second[j].count < 0,
      stages |-> first \o second \o third]

\* slice(start, stop, step) applied to a source: the stages _slice pipes the
\* source through, and whether building them raises (take with a negative
\* count, a negative step).
slice(start, stop, step) ==
  LET first == IF start # <<>>
               THEN IF start[1] < 0 THEN <<take_last(-start[1])>>
                    ELSE <<skip(start[1])>>
               ELSE <<>>
      start_or_0 == IF start = <<>> THEN 0 ELSE start[1]
      second == IF stop # <<>>
                THEN IF stop[1] > 0 THEN <<take(stop[1] - start_or_0)>>
                     ELSE <<skip_last(-stop[1])>>
                ELSE <<>>
      third == IF step > 1 THEN <<filteri(step)>> ELSE <<>>
  IN [raised |-> step < 0 \/ \E j \in 1..Len(second) :
                               second[j].op = "take" /\ second[j].count < 0,
      stages |-> first \o second \o third]

VARIABLES
  ops,            \* the pipeline: the operator stages, root source first
  arrived,        \* every signal the root source has injected, in order
  other_arrived,  \* every signal the `other` source of take_until injected
  sink,           \* every signal the downstream sink has received, in order
  disposals,      \* number of dispose_async calls made by the consumer
  disposed,       \* the subscription to the root source is disposed
  other_disposed, \* per stage: take_until's subscription to `other` (sub2)
  is_stopped,     \* per stage: the auto-detach observer has seen a terminal
  remaining,      \* per stage: skip / take countdown
  q,              \* per stage: skip_last buffer
  queue,          \* per stage: take_last buffer
  index,          \* per stage: filteri arrival counter
  inbox,          \* per stage: the MailboxProcessor queue of the actor
  latest,         \* per stage: distinct_until_changed accumulator
  current_index,  \* per stage: debounce accumulator
  indexer,        \* per stage: debounce's next sequence index
  timers,         \* per stage: debounce's sleeping workers, FIFO, each with
                  \* the time its sleep has left
  is_disposed,    \* per stage: the Disposable made by AsyncDisposable.create
                  \* / composite has run its action
  cts,            \* delay: the CancellationTokenSource is cancelled
  delayed,        \* delay: per consumer, the state of its subscription
  call,           \* the operator call a pipeline is being built from
  phase           \* how far the construction of the pipeline has got

vars == <<ops, arrived, other_arrived, sink, disposals, disposed,
          other_disposed, is_stopped, remaining, q, queue, index, inbox,
          latest, current_index, indexer, timers, is_disposed, cts, delayed,
          call, phase>>

Stages == 1..Len(ops)

\* The mutable state as one record, threaded through the handlers.
Cur ==
  [ops |-> ops, sink |-> sink, disposed |-> disposed, other_disposed |-> other_disposed,
   is_stopped |-> is_stopped, remaining |-> remaining, q |-> q,
   queue |-> queue, index |-> index, inbox |-> inbox, latest |-> latest,
   current_index |-> current_index, indexer |-> indexer, timers |-> timers,
   is_disposed |-> is_disposed]

Commit(S) ==
  /\ sink' = S.sink
  /\ disposed' = S.disposed
  /\ other_disposed' = S.other_disposed
  /\ is_stopped' = S.is_stopped
  /\ remaining' = S.remaining
  /\ q' = S.q
  /\ queue' = S.queue
  /\ index' = S.index
  /\ inbox' = S.inbox
  /\ latest' = S.latest
  /\ current_index' = S.current_index
  /\ indexer' = S.indexer
  /\ timers' = S.timers
  /\ is_disposed' = S.is_disposed

RECURSIVE Emit(_, _, _), safe_obv(_, _, _), dispose_async(_, _),
          send_all(_, _, _)

\* MailboxProcessor.post
post(i, msg, S) == [S EXCEPT !.inbox[i] = Append(@, msg)]

\* a Disposable that runs its action on every call (a plain wrapper of cancel
\* for AsyncDisposable.create(cancel))
dispose_async_every_call(i, S) ==
  IF i = 0 THEN [S EXCEPT !.disposed = TRUE]
  ELSE IF S.ops[i].op = "take_until"
    THEN [dispose_async(i - 1, S) EXCEPT !.other_disposed[i] = TRUE]
  ELSE IF S.ops[i].op = "debounce"
    THEN post(i, [n |-> OnCompleted, index |-> 0, repost |-> FALSE,
                  newer |-> FALSE, slept |-> 0],
              dispose_async(i - 1, S))
  ELSE dispose_async(i - 1, S)

\* The Disposable that stage i's subscribe_async returns; stage 0 is the
\* root source, whose Disposable ends the root subscription.  take_until
\* returns AsyncDisposable.composite(sub1, sub2) and debounce returns
\* AsyncDisposable.create(cancel), which run their action on the first call
\* only; the other stages hand on the Disposable of their upstream.
dispose_async(i, S) ==
  IF i = 0 THEN [S EXCEPT !.disposed = TRUE]
  ELSE IF S.ops[i].op \in {"take_until", "debounce"} /\ S.is_disposed[i] THEN S
  ELSE IF S.ops[i].op = "take_until"
    THEN [dispose_async(i - 1, [S EXCEPT !.is_disposed[i] = TRUE])
            EXCEPT !.other_disposed[i] = TRUE]
  ELSE IF S.ops[i].op = "debounce"
    THEN post(i, [n |-> OnCompleted, index |-> 0, repost |-> FALSE,
                  newer |-> FALSE, slept |-> 0],
              dispose_async(i - 1, [S EXCEPT !.is_disposed[i] = TRUE]))
  ELSE dispose_async(i - 1, S)

\* auto_detach_observer: the safe observer of stage i in front of the observer
\* of stage i+1, tied to the subscription stage i made to stage i-1.
safe_obv(i, n, S) ==
  IF S.is_stopped[i] THEN S
  ELSE IF n.kind = "OnNext" THEN Emit(i + 1, n, S)
  ELSE dispose_async(i - 1, Emit(i + 1, n, [S EXCEPT !.is_stopped[i] = TRUE]))

\* for item in queue: await safe_obv.asend(item)
send_all(i, items, S) ==
  IF items = <<>> THEN S
  ELSE send_all(i, Tail(items), safe_obv(i, OnNext(Head(items)), S))

skip_asend(i, value, S) ==
  IF S.remaining[i] <= 0 THEN safe_obv(i, OnNext(value), S)
  ELSE [S EXCEPT !.remaining[i] = @ - 1]

skip_last_asend(i, value, S) ==
  LET appended == Append(S.q[i], value)
      overflow == Len(appended) > S.ops[i].count
      front == IF overflow THEN Head(appended) ELSE None
      S1 == [S EXCEPT !.q[i] = IF overflow THEN Tail(appended) ELSE appended]
  IN IF front # None THEN safe_obv(i, OnNext(front), S1) ELSE S1

\* take that never synthesizes the completion
take_asend_no_close(i, value, S) ==
  IF S.remaining[i] > 0
  THEN safe_obv(i, OnNext(value), [S EXCEPT !.remaining[i] = @ - 1])
  ELSE S

\* take that closes the raw observer (obvAsync.aclose() for safe_obv.aclose())
take_asend_raw_close(i, value, S) ==
  IF S.remaining[i] > 0
  THEN LET S1 == [S EXCEPT !.remaining[i] = @ - 1]
           S2 == safe_obv(i, OnNext(value), S1)
       IN IF S2.remaining[i] = 0 THEN Emit(i + 1, OnCompleted, S2) ELSE S2
  ELSE S

take_asend(i, value, S) ==
  IF S.remaining[i] > 0
  THEN LET S1 == [S EXCEPT !.remaining[i] = @ - 1]
           S2 == safe_obv(i, OnNext(value), S1)
       IN IF S2.remaining[i] = 0 THEN safe_obv(i, OnCompleted, S2) ELSE S2
  ELSE S

\* take_last that evicts the newest item (queue.pop() for queue.pop(0))
take_last_asend_pop_newest(i, value, S) ==
  LET appended == Append(S.queue[i], value)
  IN [S EXCEPT !.queue[i] = IF Len(appended) > S.ops[i].count
                            THEN SubSeq(appended, 1, Len(appended) - 1)
                            ELSE appended]

take_last_asend(i, value, S) ==
  LET appended == Append(S.queue[i], value)
  IN [S EXCEPT !.queue[i] = IF Len(appended) > S.ops[i].count
                            THEN Tail(appended) ELSE appended]

take_last_aclose(i, S) == safe_obv(i, OnCompleted, send_all(i, S.queue[i], S))

filteri_asend(i, value, S) ==
  LET S1 == [S EXCEPT !.index[i] = @ + 1]
  IN IF S.index[i] % S.ops[i].count = 0 THEN safe_obv(i, OnNext(value), S1)
     ELSE S1

\* AsyncNotificationObserver(notification) of distinct_until_changed
notification(i, n, S) == post(i, n, S)

\* AsyncNotificationObserver(obv) of debounce: post, then start the sleeper
debounce_obv(i, n, S) ==
  LET idx == S.indexer[i]
      S1 == [S EXCEPT !.indexer[i] = @ + 1]
      S2 == post(i, [n |-> n, index |-> idx, repost |-> FALSE,
                     newer |-> FALSE, slept |-> 0], S1)
  IN [S2 EXCEPT !.timers[i] =
        Append(@, [n |-> n, index |-> idx, left |-> S.ops[i].count])]

\* Deliver notification n to the observer at position i of the chain.
Emit(i, n, S) ==
  IF i > Len(S.ops) THEN [S EXCEPT !.sink = Append(@, n)]
  ELSE LET o == S.ops[i].op IN
    IF o = "skip" THEN
      IF n.kind = "OnNext" THEN skip_asend(i, n.value, S) ELSE safe_obv(i, n, S)
    ELSE IF o = "skip_last" THEN
      IF n.kind = "OnNext" THEN skip_last_asend(i, n.value, S)
      ELSE safe_obv(i, n, S)
    ELSE IF o = "take" THEN
      IF n.kind = "OnNext" THEN take_asend(i, n.value, S) ELSE safe_obv(i, n, S)
    ELSE IF o = "take_last" THEN
      IF n.kind = "OnNext" THEN take_last_asend(i, n.value, S)
      ELSE IF n.kind = "OnCompleted" THEN take_last_aclose(i, S)
      ELSE safe_obv(i, n, S)
    ELSE IF o = "filteri" THEN
      IF n.kind = "OnNext" THEN filteri_asend(i, n.value, S)
      ELSE safe_obv(i, n, S)
    ELSE IF o = "take_until" THEN safe_obv(i, n, S)
    ELSE IF o = "distinct_until_changed" THEN notification(i, n, S)
    ELSE debounce_obv(i, n, S)

\* distinct_until_changed, get_latest with `if n != latest: break`
get_latest_inverted(i, n, S) ==
  IF n.kind = "OnNext" /\ n # S.latest[i] THEN S ELSE safe_obv(i, n, S)

\* distinct_until_changed: get_latest, the reaction to one received message
get_latest(i, n, S) ==
  IF n.kind = "OnNext" /\ n = S.latest[i] THEN S ELSE safe_obv(i, n, S)

\* message_loop that recurses with the old accumulator (TailCall(latest)
\* without latest = await get_latest())
distinct_message_loop_stale(i, S) ==
  get_latest(i, Head(S.inbox[i]), [S EXCEPT !.inbox[i] = Tail(@)])

\* distinct_until_changed: one turn of message_loop(latest)
distinct_message_loop(i, S) ==
  LET n == Head(S.inbox[i])
      S1 == get_latest(i, n, [S EXCEPT !.inbox[i] = Tail(@)])
  IN [S1 EXCEPT !.latest[i] = n]

\* debounce that forwards a value the first time its index is seen
debounce_message_loop_eager(i, S) ==
  LET m == Head(S.inbox[i])
      S1 == [S EXCEPT !.inbox[i] = Tail(@)]
  IN IF m.n.kind = "OnNext" THEN
       IF m.index > S1.current_index[i]
       THEN safe_obv(i, m.n, [S1 EXCEPT !.current_index[i] = m.index])
       ELSE S1
     ELSE safe_obv(i, m.n, S1)

\* debounce: one turn of message_loop(current_index).  The fields repost,
\* newer and slept of a message are history only; the loop reads n and index.
debounce_message_loop(i, S) ==
  LET m == Head(S.inbox[i])
      S1 == [S EXCEPT !.inbox[i] = Tail(@)]
  IN IF m.n.kind = "OnNext" THEN
       IF m.index = S1.current_index[i] THEN safe_obv(i, m.n, S1)
       ELSE IF m.index > S1.current_index[i]
         THEN [S1 EXCEPT !.current_index[i] = m.index]
       ELSE S1
     ELSE safe_obv(i, m.n, S1)

\* take_until whose `other` observer passes the value on (safe_obv.asend)
other_obv_forwards(i, n, S) ==
  IF n.kind = "OnCompleted" THEN S ELSE safe_obv(i, n, S)

\* take_until: the observer subscribed to `other`,
\* AsyncAnonymousObserver(asend, safe_obv.athrow); its aclose is the default.
other_obv(i, n, S) ==
  IF n.kind = "OnNext" THEN safe_obv(i, OnCompleted, S)
  ELSE IF n.kind = "OnError" THEN safe_obv(i, OnError, S)
  ELSE S

\* ------------------------------------------------------------------ delay
\* delay(seconds) is applied to one source; the consumers each subscribe to
\* the delayed observable it returns.
Consumers == {"a", "b"}

\* A consumer that has not called subscribe_async.  pc is where the loop of
\* its agent stands, arrived what the source handed to its obv, inbox the
\* mailbox of (ns, due_time) with the time left to due_time, held the message
\* the loop sleeps on, aobv what was forwarded to its observer (with the time
\* that was left to due_time), subscription_disposed the upstream
\* subscription, is_disposed the Disposable made by create(cancel), disposals
\* the consumer's dispose_async calls.
Unsubscribed ==
  [pc |-> "unsubscribed", arrived |-> <<>>, inbox |-> <<>>, held |-> <<>>,
   aobv |-> <<>>, subscription_disposed |-> FALSE, is_disposed |-> FALSE,
   disposals |-> 0]

\* ------------------------------------------------------------------ init
\* The state right after subscribing the sink to pipeline p.
Subscribed(p) ==
  [ops |-> p, sink |-> <<>>, disposed |-> FALSE,
   other_disposed |-> [i \in 1..Len(p) |-> FALSE],
   is_stopped |-> [i \in 1..Len(p) |-> FALSE],
   remaining |-> [i \in 1..Len(p) |->
                    IF p[i].op \in {"skip", "take"} THEN p[i].count ELSE 0],
   q |-> [i \in 1..Len(p) |-> <<>>],
   queue |-> [i \in 1..Len(p) |-> <<>>],
   index |-> [i \in 1..Len(p) |-> 0],
   inbox |-> [i \in 1..Len(p) |-> <<>>],
   latest |-> [i \in 1..Len(p) |-> OnCompleted],
   current_index |-> [i \in 1..Len(p) |-> -1],
   indexer |-> [i \in 1..Len(p) |-> 0],
   timers |-> [i \in 1..Len(p) |-> <<>>],
   is_disposed |-> [i \in 1..Len(p) |-> FALSE]]

InitFor(pipelines) ==
  /\ ops \in pipelines
  /\ arrived = <<>>
  /\ other_arrived = <<>>
  /\ disposals = 0
  /\ sink = Subscribed(ops).sink
  /\ disposed = Subscribed(ops).disposed
  /\ other_disposed = Subscribed(ops).other_disposed
  /\ is_stopped = Subscribed(ops).is_stopped
  /\ remaining = Subscribed(ops).remaining
  /\ q = Subscribed(ops).q
  /\ queue = Subscribed(ops).queue
  /\ index = Subscribed(ops).index
  /\ inbox = Subscribed(ops).inbox
  /\ latest = Subscribed(ops).latest
  /\ current_index = Subscribed(ops).current_index
  /\ indexer = Subscribed(ops).indexer
  /\ timers = Subscribed(ops).timers
  /\ is_disposed = Subscribed(ops).is_disposed
  /\ cts = FALSE
  /\ delayed = [c \in Consumers |-> Unsubscribed]
  /\ call = [fn |-> "pipe", args |-> <<>>]
  /\ phase = "subscribed"

\* ------------------------------------------ a pipeline run to quiescence
actor_receive(i, S) ==
  IF S.ops[i].op = "debounce" THEN debounce_message_loop(i, S)
  ELSE distinct_message_loop(i, S)

Busy(S) == {i \in 1..Len(S.ops) : S.inbox[i] # <<>>}

RECURSIVE Drain(_), Fold(_, _)
\* every actor receives until every mailbox is empty
Drain(S) ==
  IF Busy(S) = {} THEN S
  ELSE Drain(actor_receive(CHOOSE i \in Busy(S) : \A j \in Busy(S) : i <= j, S))

Fold(S, input) ==
  IF input = <<>> THEN S
  ELSE Fold(Drain(Emit(1, Head(input), S)), Tail(input))

\* what the sink of pipeline p has received once the source has injected
\* `input` and the actors have emptied their mailboxes
Run(p, input) == Fold(Subscribed(p), input).sink

\* --------------------------------------------------------------- actions
\* The root source calls asend / athrow / aclose on the first observer.
Timed == \E i \in Stages : ops[i].op = "debounce"

TwoSources == \E i \in Stages : ops[i].op = "take_until"

Delayed == \E i \in Stages : ops[i].op = "delay"

Budget ==
  IF Len(ops) = 1 /\ ~Timed /\ ~TwoSources THEN MaxSignals ELSE MaxBurst

Source(n) ==
  /\ phase = "subscribed" /\ ~Delayed
  /\ Len(arrived) < Budget
  /\ arrived' = Append(arrived, n)
  /\ Commit(Emit(1, n, Cur))
  /\ UNCHANGED <<cts, delayed, call, phase, ops, other_arrived, disposals>>

asend == \E x \in Values : Source(OnNext(x))
athrow == Source(OnError)
aclose == Source(OnCompleted)

\* The `other` source of take_until calls its observer.
Other(n) ==
  /\ Len(other_arrived) < MaxOther
  /\ \E i \in Stages :
       /\ ops[i].op = "take_until"
       /\ Commit(other_obv(i, n, Cur))
  /\ other_arrived' = Append(other_arrived, n)
  /\ UNCHANGED <<cts, delayed, call, phase, ops, arrived, disposals>>

other_asend == \E x \in Values : Other(OnNext(x))
other_athrow == Other(OnError)
other_aclose == Other(OnCompleted)

\* The actor of a distinct_until_changed stage receives one message.
distinct_receive ==
  \E i \in Stages :
    /\ ops[i].op = "distinct_until_changed"
    /\ inbox[i] # <<>>
    /\ Commit(distinct_message_loop(i, Cur))
    /\ UNCHANGED <<cts, delayed, call, phase, ops, arrived, other_arrived, disposals>>

\* The actor of a debounce stage receives one message.
debounce_receive ==
  \E i \in Stages :
    /\ ops[i].op = "debounce"
    /\ inbox[i] # <<>>
    /\ Commit(debounce_message_loop(i, Cur))
    /\ UNCHANGED <<cts, delayed, call, phase, ops, arrived, other_arrived, disposals>>

\* debounce: the oldest sleeping worker wakes up and re-posts (n, index).
\* All workers sleep the same time, so they wake in the order they started.
debounce_worker ==
  \E i \in Stages :
    /\ ops[i].op = "debounce"
    /\ timers[i] # <<>>
    /\ Head(timers[i]).left = 0
    /\ LET t == Head(timers[i])
           msg == [n |-> t.n, index |-> t.index, repost |-> TRUE,
                   newer |-> \E j \in (t.index + 2)..Len(arrived) :
                                arrived[j].kind = "OnNext",
                   slept |-> ops[i].count - t.left]
       IN Commit(post(i, msg, [Cur EXCEPT !.timers[i] = Tail(@)]))
    /\ UNCHANGED <<cts, delayed, call, phase, ops, arrived, other_arrived, disposals>>

\* One unit of time passes for every sleeping worker; a worker whose sleep is
\* over wakes before time moves on.  Time that passes while no worker sleeps
\* changes nothing.
Tick ==
  /\ \E i \in Stages : timers[i] # <<>>
  /\ \A i \in Stages : \A j \in 1..Len(timers[i]) : timers[i][j].left > 0
  /\ timers' = [i \in Stages |->
                  [j \in 1..Len(timers[i]) |->
                     [timers[i][j] EXCEPT !.left = @ - 1]]]
  /\ UNCHANGED <<cts, delayed, call, phase, ops, arrived, other_arrived, sink, disposals, disposed,
                 other_disposed, is_stopped, remaining, q, queue, index,
                 inbox, latest, current_index, indexer, is_disposed>>

\* The consumer disposes the Disposable its subscribe_async call returned.
Dispose ==
  /\ phase = "subscribed" /\ ~Delayed
  /\ disposals < MaxDispose
  /\ disposals' = disposals + 1
  /\ Commit(dispose_async(Len(ops), Cur))
  /\ UNCHANGED <<cts, delayed, call, phase, ops, arrived, other_arrived>>

\* ---------------------------------------------------------- delay: actions
\* loop(): the check of the token that opens every turn of the loop
loop(cancelled) == IF cancelled THEN "returned" ELSE "receive"

\* matcher(): the notification goes to aobv as it is
matcher(d, msg) ==
  [d EXCEPT !.aobv = Append(@, [n |-> msg.ns, left |-> msg.left])]

\* delay whose loop forwards without waiting for due_time
delay_receive_no_sleep(d, cancelled) ==
  LET msg == Head(d.inbox)
      d1 == [d EXCEPT !.inbox = Tail(@)]
  IN [matcher(d1, msg) EXCEPT !.pc = loop(cancelled)]

\* loop(): inbox.receive() returns the oldest message; the loop sleeps when
\* due_time is ahead, else forwards at once and starts its next turn
delay_receive(d, cancelled) ==
  LET msg == Head(d.inbox)
      d1 == [d EXCEPT !.inbox = Tail(@)]
  IN IF msg.left > 0 THEN [d1 EXCEPT !.pc = "sleep", !.held = <<msg>>]
     ELSE [matcher(d1, msg) EXCEPT !.pc = loop(cancelled)]

\* loop(): asyncio.sleep(seconds) is over
delay_wake(d, cancelled) ==
  [matcher(d, d.held[1]) EXCEPT !.held = <<>>, !.pc = loop(cancelled)]

\* fn(ns): stamp the notification with its due time and post it
delay_fn(d, ns, seconds) ==
  [d EXCEPT !.arrived = Append(@, ns),
            !.inbox = Append(@, [ns |-> ns, left |-> seconds])]

\* cancel(), behind AsyncDisposable.create: cts.cancel() is the step's other
\* half
delay_cancel(d) ==
  IF d.is_disposed THEN d
  ELSE [d EXCEPT !.is_disposed = TRUE, !.subscription_disposed = TRUE]

RECURSIVE SumOver(_, _)
SumOver(f, S) ==
  IF S = {} THEN 0
  ELSE LET c == CHOOSE x \in S : TRUE IN f[c] + SumOver(f, S \ {c})

\* signals the source has handed to all subscriptions of the delayed observable
DelayArrived == SumOver([c \in Consumers |-> Len(delayed[c].arrived)], Consumers)

\* Consumer c subscribes to the delayed observable.
subscribe_async(c) ==
  /\ Delayed
  /\ delayed[c].pc = "unsubscribed"
  /\ delayed' = [delayed EXCEPT ![c].pc = loop(cts)]
  /\ UNCHANGED <<cts, call, phase, ops, arrived, other_arrived, sink,
                 disposals, disposed, other_disposed, is_stopped, remaining,
                 q, queue, index, inbox, latest, current_index, indexer,
                 timers, is_disposed>>

delay_subscribe_async == subscribe_async("a")
\* a second subscription to the same delayed observable
delay_subscribe_async_again == subscribe_async("b")

\* The source calls the obv of a subscription it has not been told to end.
DelaySource(ns) ==
  /\ DelayArrived < MaxBurst
  /\ \E c \in Consumers :
       /\ delayed[c].pc # "unsubscribed"
       /\ ~delayed[c].subscription_disposed
       /\ delayed' = [delayed EXCEPT ![c] = delay_fn(@, ns, ops[1].count)]
  /\ UNCHANGED <<cts, call, phase, ops, arrived, other_arrived, sink,
                 disposals, disposed, other_disposed, is_stopped, remaining,
                 q, queue, index, inbox, latest, current_index, indexer,
                 timers, is_disposed>>

delay_asend == \E x \in Values : DelaySource(OnNext(x))
delay_athrow == DelaySource(OnError)
delay_aclose == DelaySource(OnCompleted)

\* The loop of a subscription receives its next message.
delay_loop_receive ==
  /\ \E c \in Consumers :
       /\ delayed[c].pc = "receive"
       /\ delayed[c].inbox # <<>>
       /\ delayed' = [delayed EXCEPT ![c] = delay_receive(@, cts)]
  /\ UNCHANGED <<cts, call, phase, ops, arrived, other_arrived, sink,
                 disposals, disposed, other_disposed, is_stopped, remaining,
                 q, queue, index, inbox, latest, current_index, indexer,
                 timers, is_disposed>>

\* The sleep of a loop is over.
delay_loop_wake ==
  /\ \E c \in Consumers :
       /\ delayed[c].pc = "sleep"
       /\ delayed[c].held[1].left = 0
       /\ delayed' = [delayed EXCEPT ![c] = delay_wake(@, cts)]
  /\ UNCHANGED <<cts, call, phase, ops, arrived, other_arrived, sink,
                 disposals, disposed, other_disposed, is_stopped, remaining,
                 q, queue, index, inbox, latest, current_index, indexer,
                 timers, is_disposed>>

Elapse(msgs) ==
  [j \in 1..Len(msgs) |->
     [msgs[j] EXCEPT !.left = IF @ > 0 THEN @ - 1 ELSE 0]]

\* One unit of time passes: every due time comes one unit nearer.  A loop
\* that waits in receive() takes a posted message, and a loop whose sleep is
\* over wakes, before time moves on; a message behind the one the loop sleeps
\* on waits in the mailbox, also past its due time.
delay_tick ==
  /\ \E c \in Consumers :
       \/ \E j \in 1..Len(delayed[c].inbox) : delayed[c].inbox[j].left > 0
       \/ delayed[c].pc = "sleep"
  /\ \A c \in Consumers :
       /\ delayed[c].pc = "sleep" => delayed[c].held[1].left > 0
       /\ delayed[c].pc = "receive" => delayed[c].inbox = <<>>
  /\ delayed' = [c \in Consumers |->
                   [delayed[c] EXCEPT !.inbox = Elapse(@),
                                      !.held = Elapse(@)]]
  /\ UNCHANGED <<cts, call, phase, ops, arrived, other_arrived, sink,
                 disposals, disposed, other_disposed, is_stopped, remaining,
                 q, queue, index, inbox, latest, current_index, indexer,
                 timers, is_disposed>>

\* A consumer calls dispose_async on the Disposable of its subscription.
delay_dispose ==
  /\ \E c \in Consumers :
       /\ delayed[c].pc # "unsubscribed"
       /\ delayed[c].disposals < MaxDispose
       /\ delayed' = [delayed EXCEPT ![c] =
                        [delay_cancel(@) EXCEPT !.disposals = @ + 1]]
       /\ cts' = (cts \/ ~delayed[c].is_disposed)
  /\ UNCHANGED <<call, phase, ops, arrived, other_arrived, sink,
                 disposals, disposed, other_disposed, is_stopped, remaining,
                 q, queue, index, inbox, latest, current_index, indexer,
                 timers, is_disposed>>

WindowPipelines ==
  {<<f>> : f \in {skip(c) : c \in 0..MaxCount} \cup
                 {skip_last(c) : c \in 0..MaxCount} \cup
                 {take(c) : c \in 0..MaxCount} \cup
                 {take_last(c) : c \in 0..MaxCount}}

InitWindow == InitFor(WindowPipelines)
NextWindow == asend \/ athrow \/ aclose
SpecWindow == InitWindow /\ [][NextWindow]_vars

\* ------------------------------------------------------- specifications
\* Every operator that subscribes through auto_detach_observer, one at a time.
Pipelines ==
  WindowPipelines \cup
    {<<take_until>>, <<distinct_until_changed>>, <<debounce(Seconds)>>}

Init == InitFor(Pipelines)
Next ==
  \/ asend \/ athrow \/ aclose
  \/ other_asend \/ other_athrow \/ other_aclose
  \/ distinct_receive
  \/ debounce_receive \/ debounce_worker \/ Tick
Spec == Init /\ [][Next]_vars

\* The same with a consumer that disposes its subscription.
NextDisposing == Next \/ Dispose
SpecDisposing == Init /\ [][NextDisposing]_vars

\* distinct_until_changed applied once and applied twice.
InitDistinct ==
  InitFor({<<distinct_until_changed>>,
           <<distinct_until_changed, distinct_until_changed>>})
NextDistinct == asend \/ athrow \/ aclose \/ distinct_receive
SpecDistinct == InitDistinct /\ [][NextDistinct]_vars

\* take_until with its two sources.
InitUntil == InitFor({<<take_until>>})
NextUntil ==
  \/ asend \/ athrow \/ aclose
  \/ other_asend \/ other_athrow \/ other_aclose
SpecUntil == InitUntil /\ [][NextUntil]_vars

\* debounce with its actor, its sleeping workers and the clock.
InitDebounce == InitFor({<<debounce(Seconds)>>})
NextDebounce ==
  \/ asend \/ athrow \/ aclose
  \/ debounce_receive \/ debounce_worker \/ Tick
SpecDebounce == InitDebounce /\ [][NextDebounce]_vars

\* delay with one consumer of the delayed observable, its loop and the
\* clock.
InitDelay == InitFor({<<delay(Seconds)>>})
NextDelay ==
  \/ delay_subscribe_async
  \/ delay_asend \/ delay_athrow \/ delay_aclose
  \/ delay_loop_receive \/ delay_loop_wake \/ delay_tick
  \/ delay_dispose
SpecDelay == InitDelay /\ [][NextDelay]_vars

\* The same with a second consumer of the delayed observable.
NextDelayShared == NextDelay \/ delay_subscribe_async_again
SpecDelayShared == InitDelay /\ [][NextDelayShared]_vars

\* The operators whose subscribe_async makes a Disposable of its own, delay,
\* debounce and take_until, each with a consumer that disposes it.
InitDisposable ==
  InitFor({<<delay(Seconds)>>, <<debounce(Seconds)>>, <<take_until>>})
NextDisposable ==
  \/ Len(arrived) < MaxOther /\ asend
  \/ Len(arrived) < MaxOther /\ athrow
  \/ Len(arrived) < MaxOther /\ aclose
  \/ other_asend \/ other_athrow \/ other_aclose
  \/ debounce_receive \/ debounce_worker \/ Tick
  \/ Dispose
  \/ NextDelay
SpecDisposable == InitDisposable /\ [][NextDisposable]_vars

\* debounce with a consumer that disposes its subscription.
NextDebounceDisposing ==
  \/ Len(arrived) < MaxOther /\ asend
  \/ Len(arrived) < MaxOther /\ athrow
  \/ Len(arrived) < MaxOther /\ aclose
  \/ debounce_receive \/ debounce_worker \/ Tick
  \/ Dispose
SpecDebounceDisposing == InitDebounce /\ [][NextDebounceDisposing]_vars

\* ------------------------------------------------ building a pipeline
\* The operator calls a pipeline is built from: take(count) and
\* slice(start, stop, step), negative and zero arguments included.
Calls ==
  {[fn |-> "take", args |-> <<count>>] : count \in (-MaxCount)..MaxCount}
    \cup
  {[fn |-> "slice", args |-> a] :
     a \in Optional((-MaxCount)..MaxCount) \X Optional((-MaxCount)..MaxCount)
            \X ((-MaxStep)..MaxStep)}

InitBuild ==
  /\ call \in Calls
  /\ phase = "start"
  /\ ops = <<>>
  /\ arrived = <<>>
  /\ other_arrived = <<>>
  /\ disposals = 0
  /\ cts = FALSE
  /\ delayed = [c \in Consumers |-> Unsubscribed]
  /\ sink = Subscribed(ops).sink
  /\ disposed = Subscribed(ops).disposed
  /\ other_disposed = Subscribed(ops).other_disposed
  /\ is_stopped = Subscribed(ops).is_stopped
  /\ remaining = Subscribed(ops).remaining
  /\ q = Subscribed(ops).q
  /\ queue = Subscribed(ops).queue
  /\ index = Subscribed(ops).index
  /\ inbox = Subscribed(ops).inbox
  /\ latest = Subscribed(ops).latest
  /\ current_index = Subscribed(ops).current_index
  /\ indexer = Subscribed(ops).indexer
  /\ timers = Subscribed(ops).timers
  /\ is_disposed = Subscribed(ops).is_disposed

\* The call take(count) or slice(start, stop, step) is evaluated: take checks
\* its count, slice returns _slice whatever its arguments are.
operator_call ==
  /\ phase = "start"
  /\ phase' = IF call.fn = "take" /\ take_raises(call.args[1])
              THEN "raised in call" ELSE "operator"
  /\ UNCHANGED <<cts, delayed, call, ops, arrived, other_arrived, sink,
                 disposals, disposed, other_disposed, is_stopped, remaining,
                 q, queue, index, inbox, latest, current_index, indexer,
                 timers, is_disposed>>

\* The operator is applied to the source (pipe(source, operator)): _take
\* returns its observable, _slice pipes the source through its stages and
\* raises for a negative take count and a negative step.
operator_apply ==
  /\ phase = "operator"
  /\ IF call.fn = "take"
     THEN phase' = "observable" /\ ops' = <<take(call.args[1])>>
     ELSE LET sliced == slice(call.args[1], call.args[2], call.args[3]) IN
            IF sliced.raised
            THEN phase' = "raised in apply" /\ ops' = ops
            ELSE phase' = "observable" /\ ops' = sliced.stages
  /\ UNCHANGED <<cts, delayed, call, arrived, other_arrived, sink,
                 disposals, disposed, other_disposed, is_stopped, remaining,
                 q, queue, index, inbox, latest, current_index, indexer,
                 timers, is_disposed>>

\* The sink subscribes to the observable the pipeline ends in.
operator_subscribe_async ==
  /\ phase = "observable"
  /\ phase' = "subscribed"
  /\ Commit(Subscribed(ops))
  /\ UNCHANGED <<cts, delayed, call, ops, arrived, other_arrived, disposals>>

NextBuild ==
  \/ operator_call \/ operator_apply \/ operator_subscribe_async
  \/ Len(arrived) < MaxOther /\ asend
  \/ Len(arrived) < MaxOther /\ athrow
  \/ Len(arrived) < MaxOther /\ aclose
SpecBuild == InitBuild /\ [][NextBuild]_vars

\* The marble diagram of slice's docstring, r-e-a-c-t-i-v-e-|, each letter
\* written as its position in the alphabet.
reactive == <<18, 5, 1, 3, 20, 9, 22, 5>>
reactive_signals == [j \in 1..Len(reactive) |-> OnNext(reactive[j])] \o <<OnCompleted>>

\* The root source plays the marble diagram.
reactive_source ==
  /\ phase = "subscribed"
  /\ Len(arrived) < Len(reactive_signals)
  /\ arrived = SubSeq(reactive_signals, 1, Len(arrived))
  /\ arrived' = Append(arrived, reactive_signals[Len(arrived) + 1])
  /\ Commit(Emit(1, reactive_signals[Len(arrived) + 1], Cur))
  /\ UNCHANGED <<cts, delayed, call, phase, ops, other_arrived, disposals>>

\* slice for every start and stop, None included, and every step >= 1 whose
\* construction does not raise.
SlicePipelines ==
  {slice(start, stop, step).stages :
     <<start, stop, step>> \in
       {a \in Optional(-MaxCount..MaxCount) \X Optional(-MaxCount..MaxCount)
                \X (1..MaxStep) : ~slice(a[1], a[2], a[3]).raised}}

InitSlice == InitFor(SlicePipelines)
NextSlice == asend \/ athrow \/ aclose \/ reactive_source
SpecSlice == InitSlice /\ [][NextSlice]_vars

\* ------------------------------------------------- reading the histories
Min(a, b) == IF a < b THEN a ELSE b
Max(a, b) == IF a > b THEN a ELSE b

Range(s) == {s[j] : j \in 1..Len(s)}
AllValues(s) == \A j \in 1..Len(s) : s[j].kind = "OnNext"
Terminals(s) == {j \in 1..Len(s) : IsTerminal(s[j])}
\* position of the first terminal signal of s, Len(s)+1 when there is none
FirstTerminal(s) ==
  IF Terminals(s) = {} THEN Len(s) + 1
  ELSE CHOOSE j \in Terminals(s) : \A k \in Terminals(s) : j <= k
\* the values the source delivered before its first terminal signal
Before(s) == SubSeq(s, 1, FirstTerminal(s) - 1)
\* s is k values followed by completion (and whatever is injected later)
CompletedAfterValues(s) ==
  FirstTerminal(s) <= Len(s) /\ s[FirstTerminal(s)] = OnCompleted
IsOp(name) == Len(ops) = 1 /\ ops[1].op = name

\* ------------------------------------------------------------------ C2
\* C2: take(n), n >= 1: once the source has delivered n values the sink holds
\* exactly the first n of them, in arrival order, then one completion, the
\* root subscription is disposed, and nothing injected later is forwarded;
\* before the n-th value the sink holds exactly the values delivered so far.
C2_TakeFirstN ==
  (IsOp("take") /\ ops[1].count >= 1) =>
    LET n == ops[1].count IN
      /\ Len(Before(arrived)) >= n =>
           /\ sink = SubSeq(arrived, 1, n) \o <<OnCompleted>>
           /\ disposed
      /\ (AllValues(arrived) /\ Len(arrived) < n) =>
           /\ sink = arrived
           /\ ~disposed

C2_Witness ==
  /\ ops = <<take(2)>>
  /\ Len(arrived) = 4 /\ AllValues(arrived)
  /\ sink = SubSeq(arrived, 1, 2) \o <<OnCompleted>>
  /\ disposed

\* ------------------------------------------------------------------ C3
\* C3: skip_last(n): for a source that delivers k values and then completes,
\* the sink holds exactly the first max(k-n, 0) values, in arrival order, and
\* then completion.
C3_SkipLastDropsTail ==
  (IsOp("skip_last") /\ CompletedAfterValues(arrived)) =>
    LET k == FirstTerminal(arrived) - 1 IN
      sink = SubSeq(arrived, 1, Max(k - ops[1].count, 0)) \o <<OnCompleted>>

\* ------------------------------------------------------------------ C4
\* C4: take_last(n): while the source has delivered values only, the sink has
\* received nothing, and it never receives a value unless the source has
\* completed; once the source has completed after k values the sink holds
\* exactly the last min(n, k) of them, in arrival order, then completion.
C4_TakeLastFlush ==
  IsOp("take_last") =>
    /\ AllValues(arrived) => sink = <<>>
    /\ ~CompletedAfterValues(arrived) =>
         \A j \in 1..Len(sink) : sink[j].kind # "OnNext"
    /\ CompletedAfterValues(arrived) =>
         LET k == FirstTerminal(arrived) - 1 IN
           sink = SubSeq(arrived, k - Min(ops[1].count, k) + 1, k)
                    \o <<OnCompleted>>

C4_Witness ==
  /\ ops = <<take_last(2)>>
  /\ Len(arrived) = 4 /\ arrived[4] = OnCompleted
  /\ AllValues(SubSeq(arrived, 1, 3))
  /\ sink = SubSeq(arrived, 2, 3) \o <<OnCompleted>>

\* ------------------------------------------------------------------ C1
\* C1: for skip, skip_last, take, take_last, take_until,
\* distinct_until_changed and debounce, whatever the sources inject, also
\* after a terminal signal, the sink receives at most one terminal signal
\* (error or completion) and nothing after it.
C1_TerminalOnce ==
  /\ Cardinality(Terminals(sink)) <= 1
  /\ Terminals(sink) # {} => IsTerminal(sink[Len(sink)])

\* a terminal has reached the sink of debounce, the source went on injecting
\* after its own terminal signal, and everything injected has been handled
C1_Witness ==
  /\ IsOp("debounce")
  /\ Terminals(sink) # {}
  /\ Len(arrived) = MaxBurst /\ FirstTerminal(arrived) = 1
  /\ \E j \in 2..Len(arrived) : IsTerminal(arrived[j])
  /\ inbox[1] = <<>> /\ timers[1] = <<>>

\* ------------------------------------------------------------------ C5
\* C5: debounce, while the stream is live (no terminal has passed the
\* auto-detach observer): when the actor receives a value, it forwards it to
\* the sink if and only if the message is the re-post of the value's own
\* worker and no newer value had arrived from the source when the worker
\* re-posted it; the worker re-posts after sleeping the full period.
C5_Receives ==
  (/\ IsOp("debounce")
   /\ inbox[1] # <<>>
   /\ inbox'[1] = Tail(inbox[1])
   /\ Head(inbox[1]).n.kind = "OnNext"
   /\ ~is_stopped[1]) =>
     LET m == Head(inbox[1]) IN
       IF m.repost /\ ~m.newer
       THEN sink' = Append(sink, m.n) /\ m.slept = ops[1].count
       ELSE sink' = sink

RECURSIVE Collapse(_)
\* s with every run of equal consecutive elements reduced to its first
Collapse(s) ==
  IF Len(s) <= 1 THEN s
  ELSE LET front == Collapse(SubSeq(s, 1, Len(s) - 1))
       IN IF s[Len(s)] = s[Len(s) - 1] THEN front ELSE Append(front, s[Len(s)])

\* the signals of s the actor has received so far (the mailbox is FIFO)
Received(s, mailbox) == SubSeq(s, 1, Len(s) - Len(mailbox))

\* C6: distinct_until_changed: the sink holds the values the actor has
\* received before the first terminal, every run of consecutive equal values
\* collapsed to its first element, followed by that terminal if received.
C6_DistinctCollapses ==
  IsOp("distinct_until_changed") =>
    LET r == Received(arrived, inbox[1]) IN
      sink = Collapse(Before(r)) \o
               (IF FirstTerminal(r) <= Len(r) THEN <<r[FirstTerminal(r)]>>
                ELSE <<>>)

C6_Witness ==
  /\ IsOp("distinct_until_changed")
  /\ inbox[1] = <<>>
  /\ arrived = <<OnNext(1), OnNext(1), OnNext(None), OnNext(1)>>
  /\ sink = <<OnNext(1), OnNext(None), OnNext(1)>>

\* ------------------------------------------------------------------ C7
Quiescent == \A i \in Stages : inbox[i] = <<>>

\* C7: distinct_until_changed applied twice in sequence: once every mailbox
\* is empty, the sink has received exactly what one application of the
\* operator delivers for the same source signals.
C7_DistinctIdempotent ==
  (Quiescent /\ \A i \in Stages : ops[i].op = "distinct_until_changed") =>
    sink = Run(<<distinct_until_changed>>, arrived)

C7_Witness ==
  /\ ops = <<distinct_until_changed, distinct_until_changed>>
  /\ Quiescent
  /\ arrived = <<OnNext(1), OnNext(1), OnCompleted>>
  /\ sink = <<OnNext(1), OnCompleted>>

\* ------------------------------------------------------------------ C9
OtherSentValue == \E j \in 1..Len(other_arrived) : other_arrived[j].kind = "OnNext"

\* C9: take_until: a value from `other` completes a live stream at once; after
\* a value from `other` nothing the primary source injects reaches the sink;
\* before it, every value of the primary source reaches a live sink unchanged.
C9_Step ==
  IsOp("take_until") =>
    /\ (/\ other_arrived' # other_arrived
        /\ other_arrived'[Len(other_arrived')].kind = "OnNext"
        /\ Terminals(sink) = {}) => sink' = Append(sink, OnCompleted)
    /\ (arrived' # arrived /\ OtherSentValue) => sink' = sink
    /\ (/\ arrived' # arrived
        /\ ~OtherSentValue
        /\ Terminals(sink) = {}
        /\ arrived'[Len(arrived')].kind = "OnNext") =>
          sink' = Append(sink, arrived'[Len(arrived')])

C9_TakeUntilCloses ==
  /\ [](IsOp("take_until") /\ OtherSentValue => Terminals(sink) # {})
  /\ [][C9_Step]_vars

\* a value, then a value from `other`, then a primary value that is dropped
C9_Witness ==
  /\ IsOp("take_until")
  /\ Len(arrived) = 2 /\ AllValues(arrived)
  /\ other_arrived = <<OnNext(1)>>
  /\ sink = <<arrived[1], OnCompleted>>

\* ------------------------------------------------------------------ C10
\* C10: take_until: once the stream has terminated (the primary source has
\* completed or failed, or `other` has sent a value) both the subscription to
\* the primary source and the subscription to `other` are disposed.
C10_BothDisposed ==
  (IsOp("take_until") /\ Terminals(sink) # {}) =>
    disposed /\ other_disposed[1]

\* ------------------------------------------------------------------ C8
\* C8: slice(start, stop) with start >= 0, stop <= 0 and step 1 delivers, for
\* every sequence of source signals, what skip(start) followed by
\* skip_last(|stop|) delivers; for a source without None elements that
\* completes after k values that is the values start+1 .. k-|stop|, then
\* completion.
C8_SliceIsSkipThenSkipLast ==
  \A start \in 0..MaxCount : \A stop \in (-MaxCount)..0 :
    ops = slice(<<start>>, <<stop>>, 1).stages =>
      /\ sink = Run(<<skip(start), skip_last(-stop)>>, arrived)
      /\ (CompletedAfterValues(arrived) /\ OnNext(None) \notin Range(arrived)) =>
           sink = SubSeq(arrived, start + 1, FirstTerminal(arrived) - 1 + stop)
                    \o <<OnCompleted>>

\* slice(1, -2) on r-e-a-c-t-i-v-e-| has delivered e-a-c-t-i-|
C8_Witness ==
  /\ ops = slice(<<1>>, <<-2>>, 1).stages
  /\ arrived = reactive_signals
  /\ sink = <<OnNext(5), OnNext(1), OnNext(3), OnNext(20), OnNext(9), OnCompleted>>

\* ------------------------------------------------------------------ C11
\* the notifications forwarded to an observer, without their timing
Forwarded(d) == [j \in 1..Len(d.aobv) |-> d.aobv[j].n]

\* C11: delay: what a subscription has forwarded is, in order, the first
\* notifications (values, error, completion) that arrived from its upstream;
\* every notification is with the loop, in the mailbox or forwarded, at most
\* one with the loop; none was forwarded while time was left to its due time.
C11_DelayInOrder ==
  \A c \in Consumers :
    LET d == delayed[c] IN
      /\ Forwarded(d) = SubSeq(d.arrived, 1, Len(d.aobv))
      /\ Len(d.held) <= 1
      /\ d.pc # "returned" =>
           Len(d.aobv) + Len(d.held) + Len(d.inbox) = Len(d.arrived)
      /\ \A j \in 1..Len(d.aobv) : d.aobv[j].left = 0

\* a value, an error and a completion arrived one after the other, the error
\* while the loop slept on the value, and all three have been forwarded
C11_Witness ==
  LET d == delayed["a"] IN
    /\ Delayed
    /\ d.arrived = <<OnNext(1), OnError, OnCompleted>>
    /\ Forwarded(d) = d.arrived
    /\ d.pc = "receive"

\* ------------------------------------------------------------------ C12
\* C12: delay: once the Disposable of a subscription is disposed, the
\* upstream subscription is disposed and nothing more is forwarded to the
\* observer, whether it was queued or the loop was sleeping on it.
C12_Step ==
  \A c \in Consumers :
    delayed[c].is_disposed =>
      /\ delayed[c].subscription_disposed
      /\ delayed'[c].aobv = delayed[c].aobv

C12_DelayDisposalStops == [][C12_Step]_vars

\* ------------------------------------------------------------------ C13
\* C13: delay: the loop of a subscription only stops when that subscription
\* is disposed; the disposal of another subscription to the same delayed
\* observable, before or while it runs, does not stop it.
C13_IndependentSubscriptions ==
  \A c \in Consumers :
    delayed[c].pc = "returned" => delayed[c].is_disposed

\* ------------------------------------------------------------------ C19
\* C19: delay: the observer of a subscription is forwarded at most one
\* terminal signal (error or completion) and nothing after it, whatever the
\* upstream injects after its own terminal signal.
C19_DelayTerminalOnce ==
  \A c \in Consumers :
    LET f == Forwarded(delayed[c]) IN
      /\ Cardinality(Terminals(f)) <= 1
      /\ Terminals(f) # {} => IsTerminal(f[Len(f)])

\* ------------------------------------------------------------------ C14
\* C14: delay, debounce, take_until: a dispose_async call on a Disposable
\* that was disposed before changes nothing: the upstream subscriptions, the
\* token, the mailbox of the actor, the timers and the sink are as the first
\* call left them.
C14_Step ==
  /\ (disposals >= 1 /\ disposals' = disposals + 1) =>
       UNCHANGED <<sink, disposed, other_disposed, is_stopped, inbox, timers,
                   current_index, indexer, is_disposed>>
  /\ \A c \in Consumers :
       (/\ delayed[c].disposals >= 1
        /\ delayed'[c].disposals = delayed[c].disposals + 1) =>
          /\ cts' = cts
          /\ delayed'[c] = [delayed[c] EXCEPT !.disposals = @ + 1]

PendingValue ==
  LET m == Head(inbox[1])
      waits(k) == \/ \E j \in 1..Len(timers[1]) : timers[1][j].index = k
                  \/ \E j \in 1..Len(inbox[1]) :
                       inbox[1][j].repost /\ inbox[1][j].index = k
  IN IF /\ m.index >= 1
        /\ arrived[m.index].kind = "OnNext"
        /\ waits(m.index - 1)
     THEN <<arrived[m.index]>> ELSE <<>>

\* C17: debounce: when the actor receives the completion of the upstream
\* while the stream is live and the most recent value still waits for its
\* timer, the sink receives that value and then the completion.
C17_Step ==
  (/\ IsOp("debounce")
   /\ inbox[1] # <<>>
   /\ inbox'[1] = Tail(inbox[1])
   /\ Head(inbox[1]).n = OnCompleted
   /\ ~Head(inbox[1]).repost
   /\ ~is_stopped[1]
   /\ PendingValue # <<>>) =>
     sink' = sink \o PendingValue \o <<OnCompleted>>

C17_FlushOnCompletion == [][C17_Step]_vars

\* ------------------------------------------------------------------ C18
\* C18: debounce: once the Disposable of the subscription is disposed, the
\* root subscription is disposed, the sink receives nothing more, and the
\* sleeping workers post nothing more to the actor.
C18_Step ==
  (IsOp("debounce") /\ disposals >= 1) =>
    /\ disposed
    /\ sink' = sink
    /\ arrived' = arrived => Len(inbox'[1]) <= Len(inbox[1])

C18_DebounceDisposalStops == [][C18_Step]_vars

\* ------------------------------------------------------------------ C15
\* C15: take(count) with count < 0 raises in the call take(count) itself:
\* the call never returns an operator, so nothing is applied to a source,
\* nothing is subscribed and the source is never asked for a signal.
C15_TakeNegativeRaises ==
  (call.fn = "take" /\ call.args[1] < 0) =>
    /\ phase \in {"start", "raised in call"}
    /\ ops = <<>>
    /\ arrived = <<>>

C15_Witness ==
  /\ call = [fn |-> "take", args |-> <<-1>>]
  /\ phase = "raised in call"

\* ------------------------------------------------------------------ C16
\* C16: slice(start, stop, step) with step < 1, zero or negative, never
\* yields an observable: building the pipeline raises before anything can
\* subscribe.
C16_SliceStepRejected ==
  (call.fn = "slice" /\ call.args[3] < 1) =>
    phase \notin {"observable", "subscribed"}

\* ------------------------------------------------------------------ C20
\* C20: distinct_until_changed: once the actor has received an error or a
\* completion its message loop has ended: it takes no further message from
\* the mailbox.
C20_Step ==
  (/\ IsOp("distinct_until_changed")
   /\ Terminals(Received(arrived, inbox[1])) # {}) =>
     Len(inbox'[1]) >= Len(inbox[1])

C20_LoopEndsOnTerminal == [][C20_Step]_vars

\* ------------------------------------------------------------------ C21
\* C21: take(0): the sink never receives a value, and as soon as the source
\* has sent its first signal, a value, the sink has received the completion
\* and the root subscription is disposed, although the source has not
\* completed.
C21_TakeZeroCompletes ==
  (IsOp("take") /\ ops[1].count = 0) =>
    /\ \A j \in 1..Len(sink) : sink[j].kind # "OnNext"
    /\ (Len(arrived) >= 1 /\ AllValues(arrived)) =>
         sink = <<OnCompleted>> /\ disposed

\* ------------------------------------------------------------------ C22
\* C22: skip_last(n): while the source has sent values only, k of them, the
\* sink has received exactly the first max(k-n, 0) of them: every arrival
\* that overflows the queue forwards the oldest buffered item, whatever its
\* value, None included.
C22_SkipLastForwardsOldest ==
  (IsOp("skip_last") /\ AllValues(arrived)) =>
    sink = SubSeq(arrived, 1, Max(Len(arrived) - ops[1].count, 0))

====
